---- MODULE Spec2Model ----
(***************************************************************************)
(* Model of src/src/data/uds_extraction.py (UDS table extraction and       *)
(* dataset utilities) and of the flow of scripts/uds_extract.py main().    *)
(*                                                                         *)
(* Two specifications share the variables:                                 *)
(*   SpecCatalog  build_variable_catalog: extract_pdf_tables, the record   *)
(*                loop over _iter_variable_rows, drop_duplicates.          *)
(*   SpecAlign    align_dataset_to_catalog (select_dataset_columns,        *)
(*                tag_assessments, summarize_availability) followed by     *)
(*                compute_empty_rows_mask, as main() calls them.           *)
(*                                                                         *)
(* Text is a sequence of one-character strings, so that strip(), lower()   *)
(* and the substring test are computed, not assumed.  An Optional[str]     *)
(* cell is None (the empty tuple) or Some(s) (the one-element tuple <<s>>).*)
(* A dataset value is NaN, a number or a boolean.                          *)
(***************************************************************************)
EXTENDS Integers, Sequences, FiniteSets

VARIABLES
    pc,             \* position in the flow being modelled
    page_range,     \* build_variable_catalog argument (start, end)
    forms_filter,   \* build_variable_catalog argument
    all_pages_rows, \* result of extract_pdf_tables
    records,        \* the list built by the loop of build_variable_catalog
    catalog,        \* the catalog frame: a sequence of entries
    df,             \* the loaded dataset
    mmse_cols,      \* primary assessment group
    moca_cols,      \* secondary assessment group
    subset,         \* result of select_dataset_columns
    tagged,         \* result of tag_assessments
    summary,        \* result of summarize_availability
    empty_mask,     \* result of compute_empty_rows_mask
    err             \* the exception that ended the flow, or "none"

vars == <<pc, page_range, forms_filter, all_pages_rows, records, catalog, df,
          mmse_cols, moca_cols, subset, tagged, summary, empty_mask, err>>

catalogVars == <<page_range, forms_filter, all_pages_rows, records>>
alignVars == <<df, mmse_cols, moca_cols, subset, tagged, summary, empty_mask, err>>

(***************************************************************************)
(* Bounds of the model.                                                    *)
(***************************************************************************)
\* rows of the document over the whole page range
MaxRows == 2
\* records of the dataset
MaxRecords == 2

(***************************************************************************)
(* Text: str.strip(), str.lower(), the `in` substring test, truthiness.    *)
(***************************************************************************)
Whitespace == {" ", "\t", "\n"}

UpperCase == <<"A","B","C","D","E","F","G","H","I","J","K","L","M",
               "N","O","P","Q","R","S","T","U","V","W","X","Y","Z">>
LowerCase == <<"a","b","c","d","e","f","g","h","i","j","k","l","m",
               "n","o","p","q","r","s","t","u","v","w","x","y","z">>

LowerChar(c) ==
    IF \E i \in DOMAIN UpperCase : UpperCase[i] = c
    THEN LowerCase[CHOOSE i \in DOMAIN UpperCase : UpperCase[i] = c]
    ELSE c

\* str.lower()
Lower(s) == [i \in 1..Len(s) |-> LowerChar(s[i])]

\* str.strip(): drops leading and trailing whitespace
Strip(s) ==
    LET keep == {i \in 1..Len(s) : s[i] \notin Whitespace}
    IN  IF keep = {} THEN <<>>
        ELSE LET lo == CHOOSE i \in keep : \A j \in keep : i <= j
                 hi == CHOOSE i \in keep : \A j \in keep : j <= i
             IN  SubSeq(s, lo, hi)

\* tok in text
Contains(text, tok) ==
    \E i \in 0..(Len(text) - Len(tok)) : SubSeq(text, i + 1, i + Len(tok)) = tok

None == <<>>
Some(s) == <<s>>

\* truth value of an Optional[str]: None and "" are false
Truthy(cell) == cell # None /\ cell[1] # <<>>

\* a or b, on Optional[str]
PyOr(a, b) == IF Truthy(a) THEN a ELSE b

\* the literal "variable name" of _iter_variable_rows
VARIABLE_NAME == <<"v","a","r","i","a","b","l","e"," ","n","a","m","e">>

(***************************************************************************)
(* _iter_variable_rows                                                     *)
(***************************************************************************)
\* the rows of all pages, in page order then row order
RECURSIVE Flatten(_)
Flatten(pages) ==
    IF pages = <<>> THEN <<>> ELSE Head(pages) \o Flatten(Tail(pages))

IsCandidateNoHeaderSkip(row) ==
    /\ Len(row) >= 3
    /\ Truthy(row[3]) /\ Strip(row[3][1]) # <<>>

\* the row is yielded: row[2] of the code is row[3] here (1-based)
IsCandidate(row) ==
    /\ ~(Len(row) < 3)
    /\ ~(row[3] # None /\ Lower(Strip(row[3][1])) = VARIABLE_NAME)
    /\ Truthy(row[3]) /\ Strip(row[3][1]) # <<>>

iter_variable_rows(pages) == SelectSeq(Flatten(pages), IsCandidate)

(***************************************************************************)
(* build_variable_catalog                                                  *)
(***************************************************************************)
\* (row[0] or row[1] or "").strip(); every yielded row has len(row) > 1
FormField(row) == Strip(PyOr(PyOr(row[1], row[2]), Some(<<>>))[1])

PassesFilter(row, filter) ==
    filter = <<>> \/ \E k \in 1..Len(filter) : Contains(FormField(row), filter[k])

VariableName(row) == IF row[3] # None THEN Strip(row[3][1]) ELSE <<>>

Label(row) == IF Len(row) > 3 /\ row[4] # None THEN Strip(row[4][1]) ELSE <<>>

\* the loop of lines 108-126; page_idx counts the rows yielded, from start
RECURSIVE BuildFrom(_, _, _)
BuildFrom(cands, page_idx, filter) ==
    IF cands = <<>> THEN <<>>
    ELSE LET row  == Head(cands)
             rest == BuildFrom(Tail(cands), page_idx + 1, filter)
         IN  IF PassesFilter(row, filter) /\ VariableName(row) # <<>>
             THEN <<[form_field    |-> FormField(row),
                     variable_name |-> VariableName(row),
                     label         |-> Label(row),
                     source_page   |-> page_idx]>> \o rest
             ELSE rest

BuildRecords(range, pages, filter) ==
    BuildFrom(iter_variable_rows(pages), range[1], filter)

drop_duplicates_none(recs) == recs

\* DataFrame.drop_duplicates("variable_name"): the first row of each name stays
drop_duplicates(recs) ==
    LET first(i) == \A j \in 1..(i - 1) : recs[j].variable_name # recs[i].variable_name
        kept == {i \in 1..Len(recs) : first(i)}
        RECURSIVE Take(_)
        Take(i) == IF i > Len(recs) THEN <<>>
                   ELSE (IF i \in kept THEN <<recs[i]>> ELSE <<>>) \o Take(i + 1)
    IN  Take(1)

(***************************************************************************)
(* Inputs of the catalog flow.                                             *)
(***************************************************************************)
sC1 == <<"C","1">>
sC2 == <<"C","2">>
sC1sp == <<"C","1"," ">>
sC1N == <<"C","1"," ","N">>
sX == <<"X">>
sA == <<"A">>
sAsp == <<" ","A","\n">>
sB == <<"B">>
sSp == <<" ">>
sLbl == <<"M","M","S","E">>
sHeader == <<" ","V","a","r","i","a","b","l","e"," ","N","A","M","E"," ">>

RowPool == {
    <<Some(sC1N), Some(<<>>), Some(sA), Some(sLbl)>>, \* form in cell 0
    <<None, Some(sC2), Some(sAsp), None>>,            \* form in cell 1, name to trim
    <<Some(sC1sp), None, Some(sB)>>,                  \* form with a trailing blank
    <<Some(sX), Some(sC1), Some(sB), Some(sLbl)>>,    \* another form in cell 0
    <<Some(sSp), Some(sC1), Some(sB)>>,               \* blank, non-empty cell 0
    <<Some(sC1), None, Some(sHeader), None>>,         \* header row
    <<Some(sC1), Some(sA)>>,                          \* short row
    <<Some(sC1), None, None, Some(sLbl)>>,            \* no variable name
    <<Some(sC1), None, Some(sSp), None>> }            \* blank variable name

PageRanges == {<<0, 0>>, <<23, 24>>}

FormsFilters == {<<sC1, sC2>>, <<>>, <<sC1sp>>, <<sX>>}

RowSeqs == UNION {[1..n -> RowPool] : n \in 0..MaxRows}

\* the rows cut into consecutive pages: cut[i] is the page of row i
PagesOf(rows, range) ==
    LET P == range[2] - range[1] + 1
        cuts == {c \in [1..Len(rows) -> 1..P] :
                    \A i, j \in 1..Len(rows) : i <= j => c[i] <= c[j]}
        page(c, p) == SelectSeq([i \in 1..Len(rows) |-> <<c[i], rows[i]>>],
                                LAMBDA x : x[1] = p)
    IN  {[p \in 1..P |-> [i \in 1..Len(page(c, p)) |-> page(c, p)[i][2]]] : c \in cuts}

NoFrame == [columns |-> <<>>, rows |-> <<>>]

InitCatalog ==
    /\ pc = "start"
    /\ page_range \in PageRanges
    /\ forms_filter \in FormsFilters
    /\ all_pages_rows = <<>>
    /\ records = <<>>
    /\ catalog = <<>>
    /\ df = NoFrame
    /\ mmse_cols = <<>>
    /\ moca_cols = <<>>
    /\ subset = NoFrame
    /\ tagged = NoFrame
    /\ summary = <<>>
    /\ empty_mask = <<>>
    /\ err = "none"

\* extract_pdf_tables: one list of rows per page of the range
ExtractPdfTables ==
    /\ pc = "start"
    /\ \E rows \in RowSeqs : all_pages_rows' \in PagesOf(rows, page_range)
    /\ pc' = "extracted"
    /\ UNCHANGED <<page_range, forms_filter, records, catalog>>
    /\ UNCHANGED alignVars

\* lines 108-126
BuildRecordsStep ==
    /\ pc = "extracted"
    /\ records' = BuildRecords(page_range, all_pages_rows, forms_filter)
    /\ pc' = "records"
    /\ UNCHANGED <<page_range, forms_filter, all_pages_rows, catalog>>
    /\ UNCHANGED alignVars

\* line 128
DropDuplicates ==
    /\ pc = "records"
    /\ catalog' = drop_duplicates(records)
    /\ pc' = "built"
    /\ UNCHANGED catalogVars
    /\ UNCHANGED alignVars

NextCatalog == ExtractPdfTables \/ BuildRecordsStep \/ DropDuplicates

SpecCatalog == InitCatalog /\ [][NextCatalog]_vars

(***************************************************************************)
(* Dataset frames.  A frame has an ordered list of column names and a list *)
(* of records, each a function from the column names to values.            *)
(***************************************************************************)
NaN == [kind |-> "nan"]
Num(n) == [kind |-> "num", v |-> n]
Bool(b) == [kind |-> "bool", b |-> b]

\* the default of the missing_sentinel parameters
missing_sentinel == -4

HAS_MMSE == <<"h","a","s","_","M","M","S","E">>
HAS_MOCA == <<"h","a","s","_","M","O","C","A">>

\* exclude=("has_MMSE", "has_MOCA")
DefaultExclude == <<HAS_MMSE, HAS_MOCA>>

Range(seq) == {seq[i] : i \in 1..Len(seq)}

is_valid_notna_only(x) == x.kind # "nan"

\* series.notna() & (series != missing_sentinel), for one value
is_valid(x) ==
    /\ x.kind # "nan"
    /\ ~(x.kind = "num" /\ x.v = missing_sentinel)

\* catalog["variable_name"].tolist()
VariableNames(cat) == [i \in 1..Len(cat) |-> cat[i].variable_name]

\* df.loc[:, cols]
Loc(frame, cols) ==
    [columns |-> cols,
     rows    |-> [i \in 1..Len(frame.rows) |->
                    [c \in Range(cols) |-> frame.rows[i][c]]]]

select_columns_dataset_order(frame, cat) ==
    Loc(frame, SelectSeq(frame.columns, LAMBDA c : c \in Range(VariableNames(cat))))

select_all_columns(frame, cat) == frame

\* lines 134-135; the caller has checked that the catalog has the column
select_dataset_columns(frame, cat) ==
    Loc(frame, SelectSeq(VariableNames(cat), LAMBDA v : v \in Range(frame.columns)))

\* out[name] = vals: a new column goes last, an existing one is overwritten
SetColumn(frame, name, vals) ==
    [columns |-> IF name \in Range(frame.columns) THEN frame.columns
                 ELSE Append(frame.columns, name),
     rows    |-> [i \in 1..Len(frame.rows) |->
                    [c \in Range(frame.columns) \cup {name} |->
                        IF c = name THEN vals[i] ELSE frame.rows[i][c]]]]

\* out[cols] raises KeyError when this set is not empty
missing_columns(frame, cols) == Range(cols) \ Range(frame.columns)

\* out[cols].apply(lambda s: _is_valid(s).any(), axis=1) if cols else False
AnyValid(frame, cols) ==
    [i \in 1..Len(frame.rows) |->
        Bool(cols # <<>> /\ \E k \in 1..Len(cols) : is_valid(frame.rows[i][cols[k]]))]

\* lines 146-152, when no lookup fails
tag_assessments(frame, mmse, moca) ==
    LET out1 == SetColumn(frame, HAS_MMSE, AnyValid(frame, mmse))
    IN  SetColumn(out1, HAS_MOCA, AnyValid(out1, moca))

tag_input_aliased(frame, out) == out

\* out = df.copy(): the assignments to out never reach the argument
tag_input_after(frame, out) == frame

data_cols_all(frame, exclude) == frame.columns

\* [c for c in df.columns if c not in set(exclude)]
data_cols(frame, exclude) ==
    SelectSeq(frame.columns, LAMBDA c : c \notin Range(exclude))

\* lines 162-166
compute_empty_rows_mask(frame, exclude) ==
    [i \in 1..Len(frame.rows) |->
        ~ \E k \in 1..Len(data_cols(frame, exclude)) :
              is_valid(frame.rows[i][data_cols(frame, exclude)[k]])]

RECURSIVE Gcd(_, _)
Gcd(a, b) == IF b = 0 THEN a ELSE Gcd(b, a % b)

\* count / n * 100 if n else 0.0, as an exact fraction <<numerator, denominator>>
\* in lowest terms (the rounding of the float division is not modelled)
Percentage(count, n) ==
    IF n # 0 THEN <<(count * 100) \div Gcd(count * 100, n), n \div Gcd(count * 100, n)>>
    ELSE <<0, 1>>

ValidCount(frame, col) ==
    Cardinality({i \in 1..Len(frame.rows) : is_valid(frame.rows[i][col])})

\* lines 176-184: one row per column not excluded, in column order
summary_rows(frame, exclude) ==
    LET cols == data_cols(frame, exclude)
    IN  [k \in 1..Len(cols) |->
            [Column           |-> cols[k],
             Valid_Data_Count |-> ValidCount(frame, cols[k]),
             Percentage       |-> Percentage(ValidCount(frame, cols[k]), Len(frame.rows))]]

Permutations(n) ==
    {p \in [1..n -> 1..n] : \A i, j \in 1..n : p[i] = p[j] => i = j}

sort_values_unsorted(rows) == {rows}

\* sort_values("Valid_Data_Count", ascending=False) with the default
\* kind="quicksort", which is not a stable sort: every descending order of
\* the rows is a possible result
sort_values_desc(rows) ==
    {[k \in 1..Len(rows) |-> rows[p[k]]] : p \in
        {q \in Permutations(Len(rows)) :
            \A i, j \in 1..Len(rows) :
                i < j => rows[q[i]].Valid_Data_Count >= rows[q[j]].Valid_Data_Count}}

(***************************************************************************)
(* Inputs of the alignment flow.                                           *)
(***************************************************************************)
cA == <<"A">>
cB == <<"B">>
cC == <<"C">>

Entry(name) ==
    [form_field |-> sC1, variable_name |-> name, label |-> <<>>, source_page |-> 0]

\* catalogs build_variable_catalog can return: distinct, trimmed, non-empty
\* names; the empty one is the frame without columns of from_records([])
AlignCatalogs ==
    {[i \in 1..Len(ns) |-> Entry(ns[i])] :
        ns \in {<<>>, <<cA>>, <<cC>>, <<cA, cB>>, <<cB, cA>>, <<cA, cC, cB>>}}

DfColumns == {<<cA>>, <<cB>>, <<cA, cB>>, <<cB, cA>>}

Values == {NaN, Num(missing_sentinel), Num(24)}

Frames ==
    UNION {{[columns |-> cols, rows |-> rs] :
               rs \in UNION {[1..n -> [Range(cols) -> Values]] : n \in 0..MaxRecords}} :
           cols \in DfColumns}

MmseChoices == {<<>>, <<cA>>, <<cA, cB>>, <<cC>>}
MocaChoices == {<<>>, <<cB>>, <<HAS_MMSE>>}

\* main(), line 73-75: the dataset is loaded, the groups are parsed
InitAlign ==
    /\ pc = "loaded"
    /\ page_range = <<0, 0>>
    /\ forms_filter = <<>>
    /\ all_pages_rows = <<>>
    /\ records = <<>>
    /\ catalog \in AlignCatalogs
    /\ df \in Frames
    /\ mmse_cols \in MmseChoices
    /\ moca_cols \in MocaChoices
    /\ subset = NoFrame
    /\ tagged = NoFrame
    /\ summary = <<>>
    /\ empty_mask = <<>>
    /\ err = "none"

\* line 241; catalog["variable_name"] raises KeyError on a frame without columns
SelectDatasetColumns ==
    /\ pc = "loaded"
    /\ \/ /\ catalog = <<>>
          /\ err' = "KeyError in select_dataset_columns"
          /\ pc' = "raised"
          /\ UNCHANGED subset
       \/ /\ catalog # <<>>
          /\ subset' = select_dataset_columns(df, catalog)
          /\ pc' = "selected"
          /\ UNCHANGED err
    /\ UNCHANGED <<catalog, df, mmse_cols, moca_cols, tagged, summary, empty_mask>>
    /\ UNCHANGED catalogVars

\* lines 150-151 in order: out[mmse_cols] is looked up in the copy of the
\* argument, out[moca_cols] in the copy that already holds has_MMSE
tag_lookup_fails(frame, mmse, moca) ==
    IF missing_columns(frame, mmse) # {} THEN TRUE
    ELSE missing_columns(SetColumn(frame, HAS_MMSE, AnyValid(frame, mmse)), moca) # {}

\* line 242
TagAssessments ==
    /\ pc = "selected"
    /\ \/ /\ tag_lookup_fails(subset, mmse_cols, moca_cols)
          /\ err' = "KeyError in tag_assessments"
          /\ pc' = "raised"
          /\ UNCHANGED <<subset, tagged>>
       \/ /\ ~tag_lookup_fails(subset, mmse_cols, moca_cols)
          /\ tagged' = tag_assessments(subset, mmse_cols, moca_cols)
          /\ subset' = tag_input_after(subset, tag_assessments(subset, mmse_cols, moca_cols))
          /\ pc' = "tagged"
          /\ UNCHANGED err
    /\ UNCHANGED <<catalog, df, mmse_cols, moca_cols, summary, empty_mask>>
    /\ UNCHANGED catalogVars

\* line 243; DataFrame([]) has no column to sort by: sort_values raises KeyError
SummarizeAvailability ==
    /\ pc = "tagged"
    /\ \/ /\ summary_rows(tagged, DefaultExclude) = <<>>
          /\ err' = "KeyError in summarize_availability"
          /\ pc' = "raised"
          /\ UNCHANGED summary
       \/ /\ summary_rows(tagged, DefaultExclude) # <<>>
          /\ summary' \in sort_values_desc(summary_rows(tagged, DefaultExclude))
          /\ pc' = "summarized"
          /\ UNCHANGED err
    /\ UNCHANGED <<catalog, df, mmse_cols, moca_cols, subset, tagged, empty_mask>>
    /\ UNCHANGED catalogVars

\* main(), line 97
ComputeEmptyRowsMask ==
    /\ pc = "summarized"
    /\ empty_mask' = compute_empty_rows_mask(tagged, DefaultExclude)
    /\ pc' = "masked"
    /\ UNCHANGED <<catalog, df, mmse_cols, moca_cols, subset, tagged, summary, err>>
    /\ UNCHANGED catalogVars

NextAlign ==
    \/ SelectDatasetColumns
    \/ TagAssessments
    \/ SummarizeAvailability
    \/ ComputeEmptyRowsMask

SpecAlign == InitAlign /\ [][NextAlign]_vars

(***************************************************************************)
(* Properties of build_variable_catalog (SpecCatalog).                     *)
(***************************************************************************)
Built == pc = "built"

AllRows == Flatten(all_pages_rows)

\* form_field as the text states it: cell 0 if non-empty, else cell 1, else ""
StatedFormField(row) ==
    IF Truthy(row[1]) THEN row[1][1]
    ELSE IF Truthy(row[2]) THEN row[2][1]
    ELSE <<>>

\* conditions (1) and (2): at least 3 cells, and a cell 2 that is non-empty
\* after trimming and is not "variable name" in any case
HasVariableName(row) ==
    /\ Len(row) >= 3
    /\ row[3] # None
    /\ Strip(row[3][1]) # <<>>
    /\ Lower(Strip(row[3][1])) # VARIABLE_NAME

MatchesToken(text) ==
    forms_filter # <<>> => \E k \in 1..Len(forms_filter) : Contains(text, forms_filter[k])

CatalogNames == {catalog[k].variable_name : k \in 1..Len(catalog)}

\* C2: every catalog entry has as source_page the absolute index of a page on
\* which a qualifying row of its variable name stands (so start <= source_page
\* <= end).
C2_SourcePageIsPageOfRow ==
    Built =>
        \A k \in 1..Len(catalog) :
            \E p \in 1..Len(all_pages_rows) :
                /\ catalog[k].source_page = page_range[1] + p - 1
                /\ \E i \in 1..Len(all_pages_rows[p]) :
                      /\ HasVariableName(all_pages_rows[p][i])
                      /\ Strip(all_pages_rows[p][i][3][1]) = catalog[k].variable_name

\* C3: no two entries of the catalog share a variable_name.
C3_UniqueVariableNames ==
    \A i, j \in 1..Len(catalog) :
        i # j => catalog[i].variable_name # catalog[j].variable_name

\* the same name was recorded from rows of two different pages, and the
\* catalog was built
C3_Witness ==
    /\ Built
    /\ Len(all_pages_rows) = 2
    /\ \E i \in 1..Len(all_pages_rows[1]), j \in 1..Len(all_pages_rows[2]) :
          /\ HasVariableName(all_pages_rows[1][i])
          /\ HasVariableName(all_pages_rows[2][j])
          /\ Strip(all_pages_rows[1][i][3][1]) = Strip(all_pages_rows[2][j][3][1])
    /\ Len(records) = 2
    /\ records[1].variable_name = records[2].variable_name
    /\ Len(catalog) = 1

\* C4 as stated: the names of the catalog are the trimmed cell-2 values of the
\* rows with a variable name whose form_field (cell 0 if non-empty, else cell
\* 1, else "") contains a token of a non-empty forms_filter.
C4_NamesAreQualifyingRowsUntrimmedForm ==
    Built =>
        CatalogNames =
            {Strip(AllRows[i][3][1]) :
                i \in {j \in 1..Len(AllRows) :
                          /\ HasVariableName(AllRows[j])
                          /\ MatchesToken(StatedFormField(AllRows[j]))}}

\* C4 amended: the same, with the form_field trimmed before the tokens are
\* looked for in it.
C4_NamesAreQualifyingRows ==
    Built =>
        CatalogNames =
            {Strip(AllRows[i][3][1]) :
                i \in {j \in 1..Len(AllRows) :
                          /\ HasVariableName(AllRows[j])
                          /\ MatchesToken(Strip(StatedFormField(AllRows[j])))}}

\* a catalog was built from a document with a header row and a row that the
\* filter dropped, next to a row that qualified
C4_Witness ==
    /\ Built
    /\ catalog # <<>>
    /\ forms_filter # <<>>
    /\ \E i \in 1..Len(AllRows) :
          \/ Len(AllRows[i]) >= 3 /\ AllRows[i][3] # None
                /\ Lower(Strip(AllRows[i][3][1])) = VARIABLE_NAME
          \/ HasVariableName(AllRows[i])
                /\ ~MatchesToken(Strip(StatedFormField(AllRows[i])))

(***************************************************************************)
(* Properties of the alignment flow (SpecAlign).                           *)
(***************************************************************************)
Selected == pc \in {"selected", "tagged", "summarized", "masked"}
               \/ (pc = "raised" /\ err # "KeyError in select_dataset_columns")

Tagged == pc \in {"tagged", "summarized", "masked"}
             \/ (pc = "raised" /\ err = "KeyError in summarize_availability")

Summarized == pc \in {"summarized", "masked"}

\* the dataset columns named in the catalog
Aligned == Range(df.columns) \cap Range(VariableNames(catalog))

\* C1 as stated: the aligned subset holds the dataset columns named in the
\* catalog, in the order of the dataset.
C1_SubsetInDatasetOrder ==
    Selected =>
        subset.columns =
            SelectSeq(df.columns, LAMBDA c : c \in Range(VariableNames(catalog)))

\* C1 amended: the aligned subset holds exactly the dataset columns named in
\* the catalog, in the order of the catalog; names of the catalog that the
\* dataset lacks are skipped, and the only error of the step is the KeyError
\* on the catalog without columns.
C1_SubsetInCatalogOrder ==
    /\ Selected =>
          /\ Range(subset.columns) = Aligned
          /\ Len(subset.columns) = Cardinality(Aligned)
          /\ \A i, j \in 1..Len(subset.columns) :
                i < j =>
                    \E a, b \in 1..Len(catalog) :
                        /\ a < b
                        /\ catalog[a].variable_name = subset.columns[i]
                        /\ catalog[b].variable_name = subset.columns[j]
    /\ (pc = "raised" /\ err = "KeyError in select_dataset_columns") => catalog = <<>>
    /\ (pc # "loaded" /\ catalog = <<>>) => err = "KeyError in select_dataset_columns"

\* two columns were selected whose order in the catalog is the reverse of
\* their order in the dataset, and a name of the catalog was skipped
C1_Witness ==
    /\ pc = "selected"
    /\ Len(subset.columns) = 2
    /\ subset.columns # df.columns
    /\ Range(VariableNames(catalog)) \ Range(df.columns) # {}

\* the value of a flag of record i, as the group's columns of the tagged table
\* decide it
GroupHasValid(i, cols) ==
    \E k \in 1..Len(cols) :
        /\ tagged.rows[i][cols[k]] # NaN
        /\ tagged.rows[i][cols[k]] # Num(missing_sentinel)

\* C5: in the tagged table has_MMSE (has_MOCA) of a record is true iff some
\* column of the primary (secondary) group holds a value that is present and
\* is not the missing sentinel; with an empty group the flag is false.
C5_FlagsIffGroupValid ==
    Tagged =>
        \A i \in 1..Len(tagged.rows) :
            /\ tagged.rows[i][HAS_MMSE] = Bool(GroupHasValid(i, mmse_cols))
            /\ tagged.rows[i][HAS_MOCA] = Bool(GroupHasValid(i, moca_cols))
            /\ mmse_cols = <<>> => tagged.rows[i][HAS_MMSE] = Bool(FALSE)
            /\ moca_cols = <<>> => tagged.rows[i][HAS_MOCA] = Bool(FALSE)

\* a record holding only the sentinel and NaN in the primary group was
\* flagged false and a record with a score was flagged true
C5_Witness ==
    /\ pc = "tagged"
    /\ mmse_cols = <<cA, cB>>
    /\ \E i, j \in 1..Len(tagged.rows) :
          /\ tagged.rows[i][cA] = Num(missing_sentinel)
          /\ tagged.rows[i][cB] = NaN
          /\ tagged.rows[i][HAS_MMSE] = Bool(FALSE)
          /\ tagged.rows[j][cA] = Num(24)
          /\ tagged.rows[j][HAS_MMSE] = Bool(TRUE)

Finished == pc \in {"raised", "summarized", "masked"}

\* C6 as stated: align_dataset_to_catalog ends in a lookup error iff some
\* configured assessment column is not a column of the dataset.
C6_FailsIffColumnAbsentFromDataset ==
    Finished =>
        (pc = "raised" <=>
            (Range(mmse_cols) \cup Range(moca_cols)) \ Range(df.columns) # {})

\* C6 amended: it ends in a lookup error iff the catalog has no columns, or a
\* primary column is not in the aligned subset, or a secondary column is
\* neither in the aligned subset nor has_MMSE, or the aligned subset has no
\* column at all.
C6_FailsIffLookupFails ==
    Finished =>
        (pc = "raised" <=>
            \/ catalog = <<>>
            \/ Range(mmse_cols) \ Aligned # {}
            \/ Range(moca_cols) \ (Aligned \cup {HAS_MMSE}) # {}
            \/ Aligned = {})

\* every configured column is a column of the dataset, one of them is not in
\* the catalog, and the lookup in tag_assessments failed
C6_Witness ==
    /\ pc = "raised"
    /\ err = "KeyError in tag_assessments"
    /\ (Range(mmse_cols) \cup Range(moca_cols)) \subseteq Range(df.columns)
    /\ mmse_cols # <<>>

\* C7 amended: the rows of the summary are in descending order of
\* Valid_Data_Count (nothing is fixed about rows of equal count).
C7_SummaryDescending ==
    Summarized =>
        \A i, j \in 1..Len(summary) :
            i < j => summary[i].Valid_Data_Count >= summary[j].Valid_Data_Count

PositionOf(col) == CHOOSE k \in 1..Len(tagged.columns) : tagged.columns[k] = col

\* C7 as stated: descending, and rows of equal count are in the order of
\* their columns in the table.
C7_SummaryDescendingStable ==
    Summarized =>
        \A i, j \in 1..Len(summary) :
            i < j =>
                \/ summary[i].Valid_Data_Count > summary[j].Valid_Data_Count
                \/ /\ summary[i].Valid_Data_Count = summary[j].Valid_Data_Count
                   /\ PositionOf(summary[i].Column) < PositionOf(summary[j].Column)

\* the summary puts a later column of the table first, because it has more
\* valid values
C7_Witness ==
    /\ pc = "summarized"
    /\ Len(summary) = 2
    /\ summary[1].Valid_Data_Count > summary[2].Valid_Data_Count
    /\ PositionOf(summary[1].Column) > PositionOf(summary[2].Column)

\* C8: once summarize_availability has been called on a tagged table of n
\* records it has returned one row per column other than has_MMSE and
\* has_MOCA, with Valid_Data_Count the number of records holding a present,
\* non-sentinel value there and Percentage = 100 * Valid_Data_Count / n (0
\* when n = 0).
C8_SummaryPerColumn ==
    (Tagged /\ pc # "tagged") =>
        LET n == Len(tagged.rows)
            cols == {c \in Range(tagged.columns) : c \notin {HAS_MMSE, HAS_MOCA}}
        IN  /\ err = "none"
            /\ Len(summary) = Cardinality(cols)
            /\ \A c \in cols :
                  \E k \in 1..Len(summary) :
                      /\ summary[k].Column = c
                      /\ summary[k].Valid_Data_Count =
                            Cardinality({i \in 1..n :
                                /\ tagged.rows[i][c] # NaN
                                /\ tagged.rows[i][c] # Num(missing_sentinel)})
                      /\ summary[k].Valid_Data_Count \in 0..n
                      /\ IF n = 0 THEN summary[k].Percentage = <<0, 1>>
                         ELSE summary[k].Percentage[1] * n =
                                  100 * summary[k].Valid_Data_Count * summary[k].Percentage[2]

\* C9: a record is flagged empty iff every column other than has_MMSE and
\* has_MOCA holds NaN or the sentinel in it.
C9_EmptyIffNoValidDataColumn ==
    pc = "masked" =>
        /\ Len(empty_mask) = Len(tagged.rows)
        /\ \A i \in 1..Len(tagged.rows) :
              empty_mask[i] <=>
                  \A c \in Range(tagged.columns) \ {HAS_MMSE, HAS_MOCA} :
                      \/ tagged.rows[i][c] = NaN
                      \/ tagged.rows[i][c] = Num(missing_sentinel)

\* a record without valid data was flagged although its has_MOCA flag is
\* true, and a record with a score was not flagged
C9_Witness ==
    /\ pc = "masked"
    /\ \E i, j \in 1..Len(tagged.rows) :
          /\ empty_mask[i]
          /\ tagged.rows[i][HAS_MOCA] = Bool(TRUE)
          /\ ~empty_mask[j]

\* C10: the records are preserved: the aligned subset and the tagged table
\* hold, record by record and in order, the values of the dataset in the
\* aligned columns, and the table given to tag_assessments has no has_MMSE or
\* has_MOCA column after the call.
C10_RecordsPreserved ==
    /\ Selected =>
          /\ Len(subset.rows) = Len(df.rows)
          /\ Range(subset.columns) \cap {HAS_MMSE, HAS_MOCA} = {}
          /\ \A i \in 1..Len(df.rows) :
                /\ DOMAIN subset.rows[i] = Range(subset.columns)
                /\ \A c \in Range(subset.columns) : subset.rows[i][c] = df.rows[i][c]
    /\ Tagged =>
          /\ Len(tagged.rows) = Len(df.rows)
          /\ \A i \in 1..Len(df.rows) :
                \A c \in Range(subset.columns) : tagged.rows[i][c] = df.rows[i][c]

\* the whole flow ran on a dataset of two different records
C10_Witness ==
    /\ pc = "masked"
    /\ Len(df.rows) = 2
    /\ df.rows[1] # df.rows[2]
    /\ HAS_MMSE \in Range(tagged.columns)
    /\ HAS_MMSE \notin Range(subset.columns)

====
